---- MODULE Spec2Model ----
\* Model of src/src/chart.rs: chart_vector (scatter plot with a hand-laid-out
\* legend) and plot_loss (loss curve with a padded Y-range).
\*
\* f64 values are records [k, n, d]: k = "num" is the rational n/d (d > 0),
\* k = "nan", "pinf" and "ninf" are the IEEE specials.  Labels (Rust Strings)
\* are sequences of one-character strings, "" is << >>.
EXTENDS Integers, Sequences, FiniteSets, TLC

\* ---------------------------------------------------------------- bounds
MaxPoints == 3      \* rows of `data` in the label-centred specifications
MaxLabels == 3      \* length of the `labels` vector
MaxAxisRows == 2    \* rows of `data` in the axis-range specification
MaxRowLen == 2      \* length of one inner row in the axis-range specification
MaxLosses == 3      \* length of `losses`

\* ---------------------------------------------------------------- f64
Num(n, d) == [k |-> "num", n |-> n, d |-> d]
NaN == [k |-> "nan", n |-> 0, d |-> 1]
PosInf == [k |-> "pinf", n |-> 0, d |-> 1]
NegInf == [k |-> "ninf", n |-> 0, d |-> 1]

IsNaN(a) == a.k = "nan"
IsNum(a) == a.k = "num"

\* sign of a non-NaN value: -1, 0, 1
Sgn(a) == CASE a.k = "pinf" -> 1
            [] a.k = "ninf" -> -1
            [] OTHER -> IF a.n > 0 THEN 1 ELSE IF a.n < 0 THEN -1 ELSE 0

FNeg(a) == CASE a.k = "num" -> Num(-a.n, a.d)
             [] a.k = "pinf" -> NegInf
             [] a.k = "ninf" -> PosInf
             [] OTHER -> NaN

FAbs(a) == CASE a.k = "num" -> Num(IF a.n < 0 THEN -a.n ELSE a.n, a.d)
             [] a.k = "nan" -> NaN
             [] OTHER -> PosInf

FAdd(a, b) ==
    CASE IsNaN(a) \/ IsNaN(b) -> NaN
      [] IsNum(a) /\ IsNum(b) -> Num(a.n * b.d + b.n * a.d, a.d * b.d)
      [] IsNum(a) -> b
      [] IsNum(b) -> a
      [] OTHER -> IF a.k = b.k THEN a ELSE NaN

FSub(a, b) == FAdd(a, FNeg(b))

FMul(a, b) ==
    CASE IsNaN(a) \/ IsNaN(b) -> NaN
      [] IsNum(a) /\ IsNum(b) -> Num(a.n * b.n, a.d * b.d)
      [] OTHER -> IF Sgn(a) * Sgn(b) = 0 THEN NaN
                  ELSE IF Sgn(a) * Sgn(b) > 0 THEN PosInf ELSE NegInf

FDiv(a, b) ==
    CASE IsNaN(a) \/ IsNaN(b) -> NaN
      [] IsNum(a) /\ IsNum(b) ->
            IF b.n = 0
            THEN IF a.n = 0 THEN NaN ELSE IF a.n > 0 THEN PosInf ELSE NegInf
            ELSE IF b.n > 0 THEN Num(a.n * b.d, a.d * b.n)
                 ELSE Num(-(a.n * b.d), a.d * (-b.n))
      [] IsNum(a) -> Num(0, 1)
      [] IsNum(b) -> IF (IF Sgn(b) = 0 THEN 1 ELSE Sgn(b)) * Sgn(a) > 0
                     THEN PosInf ELSE NegInf
      [] OTHER -> NaN

\* IEEE comparisons: every comparison with NaN is false
FLt(a, b) ==
    CASE IsNaN(a) \/ IsNaN(b) -> FALSE
      [] IsNum(a) /\ IsNum(b) -> a.n * b.d < b.n * a.d
      [] OTHER -> (a.k = "ninf" /\ b.k # "ninf") \/ (b.k = "pinf" /\ a.k # "pinf")

FEq(a, b) ==
    CASE IsNaN(a) \/ IsNaN(b) -> FALSE
      [] IsNum(a) /\ IsNum(b) -> a.n * b.d = b.n * a.d
      [] OTHER -> a.k = b.k

FLe(a, b) == FLt(a, b) \/ FEq(a, b)

\* a.partial_cmp(b): "Less", "Equal", "Greater", or "None" when one is NaN
PartialCmp(a, b) ==
    IF IsNaN(a) \/ IsNaN(b) THEN "None"
    ELSE IF FLt(a, b) THEN "Less"
    ELSE IF FEq(a, b) THEN "Equal" ELSE "Greater"

\* num::Float::min / max as used by the folds of plot_loss: a NaN operand is
\* ignored
FloatMin(a, b) == IF IsNaN(a) THEN b ELSE IF IsNaN(b) THEN a
                  ELSE IF FLt(b, a) THEN b ELSE a
FloatMax(a, b) == IF IsNaN(a) THEN b ELSE IF IsNaN(b) THEN a
                  ELSE IF FLt(a, b) THEN b ELSE a

\* ---------------------------------------------------------------- strings
Digits == <<"0", "1", "2", "3", "4", "5", "6", "7", "8", "9">>

\* value of a decimal digit character, -1 for any other character
DigitVal(c) ==
    IF \E i \in 1..10 : Digits[i] = c
    THEN (CHOOSE i \in 1..10 : Digits[i] = c) - 1
    ELSE -1

RECURSIVE ParseDigits(_, _)
\* accumulate the digits of s onto acc; -1 as soon as one is not a digit
ParseDigits(s, acc) ==
    IF s = << >> THEN acc
    ELSE IF DigitVal(Head(s)) < 0 THEN -1
    ELSE ParseDigits(Tail(s), acc * 10 + DigitVal(Head(s)))

\* label.parse::<usize>(): the value, or -1 for Err.  The empty string, a
\* lone sign, a leading '-' and any non-digit are errors; one leading '+' is
\* accepted.  (Overflow of usize needs 20 digits, beyond the label lengths
\* used here.)
ParseUsize(s) ==
    IF s = << >> THEN -1
    ELSE IF Head(s) = "+"
         THEN IF Tail(s) = << >> THEN -1 ELSE ParseDigits(Tail(s), 0)
         ELSE ParseDigits(s, 0)

\* ---------------------------------------------------------------- colors
RED == <<255, 0, 0>>

RECURSIVE Gcd(_, _)
\* greatest common divisor of a >= 0 and b > 0; keeps the fractions small
Gcd(a, b) == IF a = 0 THEN b ELSE Gcd(b % a, a)

\* percent_to_byte of the hsl crate: (percent * 255).round(), percent = n/d >= 0
PercentToByte(n, d) ==
    LET g == Gcd(n, d) IN (2 * 255 * (n \div g) + (d \div g)) \div (2 * (d \div g))

\* hue_to_rgb of the hsl crate, in units of 1/10000: p = P/10000,
\* q = Q/10000, t = tn/td; the result is the pair <<numerator, denominator>>
HueToRgb(P, Q, tn0, td) ==
    LET tn == IF tn0 < 0 THEN tn0 + td ELSE IF tn0 > td THEN tn0 - td ELSE tn0
    IN  IF 6 * tn < td THEN <<P * td + (Q - P) * 6 * tn, 10000 * td>>
        ELSE IF 2 * tn < td THEN <<Q, 10000>>
        ELSE IF 3 * tn < 2 * td
             THEN <<P * td + (Q - P) * (4 * td - 6 * tn), 10000 * td>>
        ELSE <<P, 10000>>

\* HSL { h: hue, s: 0.7, l: 0.6 }.to_rgb() for hue = hn/hd degrees
HslToRgb(hn, hd) ==
    LET S == 70
        L == 60
        Q == IF L < 50 THEN L * (100 + S) ELSE L * 100 + S * 100 - L * S
        P == 2 * L * 100 - Q
        g0 == Gcd(hn, 360 * hd)  \* h / 360 = hn / (360 * hd), in lowest terms
        tn == hn \div g0
        td == (360 * hd) \div g0
        r == HueToRgb(P, Q, 3 * tn + td, 3 * td)
        g == HueToRgb(P, Q, 3 * tn, 3 * td)
        b == HueToRgb(P, Q, 3 * tn - td, 3 * td)
    IN  <<PercentToByte(r[1], r[2]), PercentToByte(g[1], g[2]),
          PercentToByte(b[1], b[2])>>

\* hue of the i-th unique label (0-indexed) out of n:
\* i as f64 * 360.0 / unique_labels.len() as f64
Hue(i, n) == Num(i * 360, n)

\* ---------------------------------------------------------------- axis range
RECURSIVE StepBy2(_)
\* v.iter().step_by(2): the elements at the even (0-based) positions
StepBy2(v) ==
    IF v = << >> THEN << >>
    ELSE IF Len(v) = 1 THEN v
    ELSE <<v[1]>> \o StepBy2(Tail(Tail(v)))

RECURSIVE XCoordsAll(_)
XCoordsAll(rows) ==
    IF rows = << >> THEN << >> ELSE Head(rows) \o XCoordsAll(Tail(rows))

RECURSIVE XCoords(_)
\* data.iter().flat_map(|v| v.iter().step_by(2))
XCoords(rows) ==
    IF rows = << >> THEN << >> ELSE StepBy2(Head(rows)) \o XCoords(Tail(rows))

RECURSIVE YCoords(_)
\* data.iter().flat_map(|v| v.iter().skip(1).step_by(2))
YCoords(rows) ==
    IF rows = << >> THEN << >>
    ELSE (IF Head(rows) = << >> THEN << >> ELSE StepBy2(Tail(Head(rows))))
         \o YCoords(Tail(rows))

RECURSIVE ReduceBy(_, _, _)
\* Iterator::reduce with the closure of min_by (wantMin) or max_by, whose
\* comparator unwraps partial_cmp: it panics on the first pair that has no
\* ordering.  min_by keeps the accumulator unless it is Greater, max_by
\* keeps it only when it is Greater
ReduceBy(wantMin, acc, s) ==
    IF s = << >> THEN [st |-> "some", v |-> acc]
    ELSE LET c == PartialCmp(acc, Head(s))
             keep == IF wantMin THEN c # "Greater" ELSE c = "Greater"
         IN  IF c = "None" THEN [st |-> "panic", v |-> NaN]
             ELSE ReduceBy(wantMin, IF keep THEN acc ELSE Head(s), Tail(s))

\* .min_by(|a, b| a.partial_cmp(b).unwrap()): None on an empty iterator,
\* otherwise the first minimum
MinBy(s) ==
    IF s = << >> THEN [st |-> "none", v |-> NaN]
    ELSE ReduceBy(TRUE, s[1], Tail(s))

\* .max_by(|a, b| a.partial_cmp(b).unwrap()): the last maximum
MaxBy(s) ==
    IF s = << >> THEN [st |-> "none", v |-> NaN]
    ELSE ReduceBy(FALSE, s[1], Tail(s))

\* ---------------------------------------------------------------- state
VARIABLES
    data,          \* chart_vector argument: Vec<Vec<Float>>
    labels,        \* chart_vector argument: Option<Vec<String>>, [some, v]
    pc,            \* position in chart_vector, "done" after root.present(),
                   \* "panic" after an unwrap or an index panicked
    min_x, max_x, min_y, max_y,
    label_colors,  \* Vec<(String, RGBColor)>
    hues,          \* the hue computed for each entry of label_colors
    series_list,   \* Vec<(String, Vec<(f64, f64)>, RGBColor)>
    markers,       \* the unfilled circles drawn so far
    spacing_y,
    legend,        \* the legend rows drawn so far
    prev,          \* what the previous call with the same arguments drew
    losses,        \* plot_loss argument
    loss_pc,       \* position in plot_loss
    min_loss, max_loss,
    y_range        \* the Y range handed to build_cartesian_2d by plot_loss

vars == <<data, labels, pc, min_x, max_x, min_y, max_y, label_colors, hues,
          series_list, markers, spacing_y, legend, prev, losses, loss_pc,
          min_loss, max_loss, y_range>>

scatterVars == <<data, labels, pc, min_x, max_x, min_y, max_y, label_colors,
                 hues, series_list, markers, spacing_y, legend, prev>>

lossVars == <<losses, loss_pc, min_loss, max_loss, y_range>>

\* Option<Vec<String>>
None == [some |-> FALSE, v |-> << >>]
Some(v) == [some |-> TRUE, v |-> v]

SeqsUpTo(S, n) == UNION {[1..k -> S] : k \in 0..n}

\* ---------------------------------------------------------------- inputs
F0 == Num(0, 1)
F1 == Num(1, 1)
F2 == Num(2, 1)

\* well-formed rows (one point each) of the label-centred specifications
RowPool == {<<F0, F0>>, <<F1, F2>>}

\* "", "1", "2", "10", "a"
LabelPool == {<< >>, <<"1">>, <<"2">>, <<"1", "0">>, <<"a">>}

\* coordinates of the axis-range specification
Coord == {F0, F1, NaN}

\* loss values
LossVals == {Num(-2, 1), F0, Num(5, 1), NaN}

NoOutput == [pc |-> "none", markers |-> << >>, legend |-> << >>,
             label_colors |-> << >>]

ScatterStart ==
    /\ pc = "start"
    /\ min_x = NaN /\ max_x = NaN /\ min_y = NaN /\ max_y = NaN
    /\ label_colors = << >>
    /\ hues = << >>
    /\ series_list = << >>
    /\ markers = << >>
    /\ spacing_y = NaN
    /\ legend = << >>
    /\ prev = NoOutput

LossIdle ==
    /\ losses = << >>
    /\ loss_pc = "idle"
    /\ min_loss = NaN /\ max_loss = NaN
    /\ y_range = <<NaN, NaN>>

\* a call of chart_vector(data, labels, None): well-formed rows, any labels
Init ==
    /\ data \in SeqsUpTo(RowPool, MaxPoints)
    /\ labels \in {None} \cup {Some(v) : v \in SeqsUpTo(LabelPool, MaxLabels)}
    /\ ScatterStart
    /\ LossIdle

\* a call of chart_vector with arbitrary rows (empty, odd, NaN)
InitAxis ==
    /\ data \in SeqsUpTo(SeqsUpTo(Coord, MaxRowLen), MaxAxisRows)
    /\ labels \in {None, Some(<< >>), Some(<< <<"1">> >>)}
    /\ ScatterStart
    /\ LossIdle

\* a call of chart_vector that is repeated with the same arguments: one
\* point per label
InitTwice ==
    /\ labels \in {Some(v) : v \in SeqsUpTo(LabelPool, MaxLabels)}
    /\ data = [i \in 1..Len(labels.v) |-> <<Num(i, 1), Num(i, 1)>>]
    /\ ScatterStart
    /\ LossIdle

\* ---------------------------------------------------------------- chart_vector
\* lines 191-218: fill the drawing area, then the four folds; each unwraps
\* the None of an empty iterator and the None of a NaN comparison
ComputeBounds ==
    /\ pc = "start"
    /\ LET mnx == MinBy(XCoords(data))
           mxx == MaxBy(XCoords(data))
           mny == MinBy(YCoords(data))
           mxy == MaxBy(YCoords(data))
           ok == /\ mnx.st = "some" /\ mxx.st = "some"
                 /\ mny.st = "some" /\ mxy.st = "some"
       IN  IF ok
           THEN /\ pc' = "bounds"
                /\ min_x' = mnx.v /\ max_x' = mxx.v
                /\ min_y' = mny.v /\ max_y' = mxy.v
           ELSE /\ pc' = "panic"
                /\ UNCHANGED <<min_x, max_x, min_y, max_y>>
    /\ UNCHANGED <<data, labels, label_colors, hues, series_list, markers,
                   spacing_y, legend, prev>>
    /\ UNCHANGED lossVars

\* the iteration orders a HashSet<String> of the set S can have
IterOrders(S) ==
    {o \in [1..Cardinality(S) -> S] : \A i, j \in 1..Cardinality(S) : o[i] = o[j] => i = j}

\* labels.into_iter().collect::<HashSet<String>>(): every supplied label
UniqueLabels(v) == {v[i] : i \in 1..Len(v)}

\* lines 221-238
AssignColors ==
    /\ pc = "bounds"
    /\ IF labels.some
       THEN \E unique_labels \in IterOrders(UniqueLabels(labels.v)) :
              LET n == Len(unique_labels)
              IN  /\ hues' = [i \in 1..n |-> Hue(i - 1, n)]
                  /\ label_colors' =
                        [i \in 1..n |->
                            <<unique_labels[i],
                              HslToRgb(Hue(i - 1, n).n, Hue(i - 1, n).d)>>]
       ELSE /\ hues' = << >>
            /\ label_colors' = << >>
    /\ pc' = "colors"
    /\ UNCHANGED <<data, labels, min_x, max_x, min_y, max_y, series_list,
                   markers, spacing_y, legend, prev>>
    /\ UNCHANGED lossVars

\* the label of point i (1-based): labels.clone().map(|l| l.get(i).cloned())
\* .flatten().unwrap_or_else(|| "".into())
LabelOf(i) ==
    IF labels.some /\ i <= Len(labels.v) THEN labels.v[i] ELSE << >>

\* label_colors.iter().find(|(l, _)| *l == label).map(|(_, c)| *c).unwrap_or(RED)
ColorOf(lc, label) ==
    IF \E k \in 1..Len(lc) : lc[k][1] = label
    THEN lc[CHOOSE k \in 1..Len(lc) :
                /\ lc[k][1] = label
                /\ \A j \in 1..(k - 1) : lc[j][1] # label][2]
    ELSE RED

StoredInSeriesAll(label) == TRUE

\* if !label.is_empty()
StoredInSeries(label) == label # << >>

\* one step of the closure of lines 264-295 on the series list
PushPoint(sl, label, pt, color) ==
    IF \E k \in 1..Len(sl) : sl[k].label = label
    THEN LET k == CHOOSE j \in 1..Len(sl) :
                      /\ sl[j].label = label
                      /\ \A m \in 1..(j - 1) : sl[m].label # label
         IN  [sl EXCEPT ![k].points = Append(@, pt)]
    ELSE Append(sl, [label |-> label, points |-> <<pt>>, color |-> color])

RECURSIVE DrawFrom(_, _, _, _)
\* draw_series over data.iter().enumerate(): the closure indexes values[0]
\* and values[1], which panics on a row shorter than two; the markers of the
\* earlier rows are already drawn
DrawFrom(i, lc, sl, mk) ==
    IF i > Len(data) THEN [panic |-> FALSE, series |-> sl, markers |-> mk]
    ELSE IF Len(data[i]) < 2 THEN [panic |-> TRUE, series |-> sl, markers |-> mk]
    ELSE LET label == LabelOf(i)
             color == ColorOf(lc, label)
             pt == <<data[i][1], data[i][2]>>
         IN  DrawFrom(i + 1, lc,
                      IF StoredInSeries(label) THEN PushPoint(sl, label, pt, color) ELSE sl,
                      Append(mk, [pos |-> pt, color |-> color]))

\* lines 241-296: build the chart, draw the mesh, draw one circle per row
DrawPoints ==
    /\ pc = "colors"
    /\ LET r == DrawFrom(1, label_colors, << >>, << >>)
       IN  /\ series_list' = r.series
           /\ markers' = r.markers
           /\ pc' = IF r.panic THEN "panic" ELSE "drawn"
    /\ UNCHANGED <<data, labels, min_x, max_x, min_y, max_y, label_colors,
                   hues, spacing_y, legend, prev>>
    /\ UNCHANGED lossVars

LegendBeforeDesc(a, b) == ParseUsize(a.label) > ParseUsize(b.label)

\* the comparator of sort_by, lines 301-306, on two labels that parse
LegendBefore(a, b) == ParseUsize(a.label) < ParseUsize(b.label)

RECURSIVE InsertSorted(_, _)
InsertSorted(e, s) ==
    IF s = << >> THEN <<e>>
    ELSE IF LegendBefore(e, Head(s)) THEN <<e>> \o s
    ELSE <<Head(s)>> \o InsertSorted(e, Tail(s))

RECURSIVE SortSeries(_)
\* series_list.sort_by(..): stable
SortSeries(sl) ==
    IF sl = << >> THEN << >>
    ELSE InsertSorted(sl[Len(sl)], SortSeries(SubSeq(sl, 1, Len(sl) - 1)))

\* the comparator runs only when there are two entries to compare, and then
\* on every entry; parse().unwrap() panics on a label that is not a usize
SortPanics(sl) ==
    Len(sl) >= 2 /\ \E k \in 1..Len(sl) : ParseUsize(sl[k].label) < 0

SpacingYWide(mxy, mny, n) == FDiv(FSub(mxy, mny), Num(n, 1))

\* (max_y - min_y) / (series_list.len() * 2) as f64
SpacingY(mxy, mny, n) == FDiv(FSub(mxy, mny), Num(n * 2, 1))

\* line 311
LegendStart ==
    <<FAdd(min_x, FMul(FSub(max_x, min_x), Num(8, 10))),
      FSub(max_y, FMul(FSub(max_y, min_y), Num(1, 10)))>>

RECURSIVE LegendRows(_, _, _)
\* the loop of lines 316-347: a swatch at the anchor, the text to its right,
\* then the anchor moves down by spacing_y
LegendRows(sl, position, sp) ==
    IF sl = << >> THEN << >>
    ELSE <<[label |-> Head(sl).label,
            color |-> Head(sl).color,
            pos |-> position,
            text_pos |-> <<FAdd(position[1], FDiv(sp, Num(4, 1))), position[2]>>]>>
         \o LegendRows(Tail(sl), <<position[1], FSub(position[2], sp)>>, sp)

\* lines 299-351: the legend, then root.present()
DrawLegend ==
    /\ pc = "drawn"
    /\ IF ~labels.some
       THEN /\ pc' = "done"
            /\ UNCHANGED <<series_list, spacing_y, legend>>
       ELSE IF SortPanics(series_list)
       THEN /\ pc' = "panic"
            /\ UNCHANGED <<series_list, spacing_y, legend>>
       ELSE LET sorted == SortSeries(series_list)
                sp == SpacingY(max_y, min_y, Len(sorted))
            IN  /\ series_list' = sorted
                /\ spacing_y' = sp
                /\ legend' = LegendRows(sorted, LegendStart, sp)
                /\ pc' = "done"
    /\ UNCHANGED <<data, labels, min_x, max_x, min_y, max_y, label_colors,
                   hues, markers, prev>>
    /\ UNCHANGED lossVars

\* what one call of chart_vector has put on the drawing area
Output == [pc |-> pc, markers |-> markers, legend |-> legend,
           label_colors |-> label_colors]

\* the caller renders the same points, labels and config a second time
Rerender ==
    /\ pc \in {"done", "panic"}
    /\ prev = NoOutput
    /\ prev' = Output
    /\ pc' = "start"
    /\ min_x' = NaN /\ max_x' = NaN /\ min_y' = NaN /\ max_y' = NaN
    /\ label_colors' = << >>
    /\ hues' = << >>
    /\ series_list' = << >>
    /\ markers' = << >>
    /\ spacing_y' = NaN
    /\ legend' = << >>
    /\ UNCHANGED <<data, labels>>
    /\ UNCHANGED lossVars

\* ---------------------------------------------------------------- plot_loss
Padding == Num(1, 10)

PaddedMinSigned(m) == FSub(m, FMul(Padding, m))

\* min_loss - padding * min_loss.abs()
PaddedMin(m) == FSub(m, FMul(Padding, FAbs(m)))

\* max_loss + padding * max_loss.abs()
PaddedMax(m) == FAdd(m, FMul(Padding, FAbs(m)))

RECURSIVE FoldMin(_, _)
\* losses.iter().cloned().fold(acc, F::min)
FoldMin(acc, s) ==
    IF s = << >> THEN acc ELSE FoldMin(FloatMin(acc, Head(s)), Tail(s))

RECURSIVE FoldMax(_, _)
\* losses.iter().cloned().fold(acc, F::max)
FoldMax(acc, s) ==
    IF s = << >> THEN acc ELSE FoldMax(FloatMax(acc, Head(s)), Tail(s))

InitLoss ==
    /\ losses \in SeqsUpTo(LossVals, MaxLosses)
    /\ loss_pc = "start"
    /\ min_loss = NaN /\ max_loss = NaN
    /\ y_range = <<NaN, NaN>>
    /\ data = << >>
    /\ labels = None
    /\ pc = "idle"
    /\ min_x = NaN /\ max_x = NaN /\ min_y = NaN /\ max_y = NaN
    /\ label_colors = << >>
    /\ hues = << >>
    /\ series_list = << >>
    /\ markers = << >>
    /\ spacing_y = NaN
    /\ legend = << >>
    /\ prev = NoOutput

\* lines 133-180
PlotLoss ==
    /\ loss_pc = "start"
    /\ LET mn == FoldMin(PosInf, losses)
           mx == FoldMax(NegInf, losses)
       IN  /\ min_loss' = mn
           /\ max_loss' = mx
           /\ y_range' = <<PaddedMin(mn), PaddedMax(mx)>>
    /\ loss_pc' = "done"
    /\ UNCHANGED losses
    /\ UNCHANGED scatterVars

\* ---------------------------------------------------------------- specifications
Next == ComputeBounds \/ AssignColors \/ DrawPoints \/ DrawLegend

NextTwice == ComputeBounds \/ AssignColors \/ DrawPoints \/ DrawLegend \/ Rerender

NextLoss == PlotLoss

Spec == Init /\ [][Next]_vars

SpecAxis == InitAxis /\ [][Next]_vars

SpecTwice == InitTwice /\ [][NextTwice]_vars

SpecLoss == InitLoss /\ [][NextLoss]_vars

\* ---------------------------------------------------------------- properties
Terminated == pc \in {"done", "panic"}

\* the input has zero points: no row, or only empty rows
ZeroPoints == \A i \in 1..Len(data) : data[i] = << >>

\* C1: chart_vector called with zero points returns an EmptyDataset failure
\* to its caller and does not panic, with or without labels.
C1_EmptyDatasetReturned ==
    (ZeroPoints /\ pc # "start") => (pc = "EmptyDataset" /\ pc # "panic")

\* the distinct non-empty labels that were supplied
DistinctLabels == UniqueLabels(labels.v) \ {<< >>}

\* C2: rendering the same points, labels and config twice draws the same
\* thing: same label-to-color assignment, same markers, same legend, for
\* every input with two or more distinct labels.
C2_SameOutputTwice ==
    (prev # NoOutput /\ Terminated /\ Cardinality(DistinctLabels) >= 2)
        => Output = prev

ColorsAssigned == pc \in {"colors", "drawn", "done"}

\* C3: with n >= 1 distinct non-empty labels supplied, the label-to-color
\* mapping has exactly n entries, one per distinct non-empty label, and entry
\* i (0-indexed) has hue i*360/n.
C3_OneHuePerNonEmptyLabel ==
    (ColorsAssigned /\ labels.some /\ Cardinality(DistinctLabels) >= 1) =>
        LET n == Cardinality(DistinctLabels)
        IN  /\ Len(label_colors) = n
            /\ {label_colors[k][1] : k \in 1..Len(label_colors)} = DistinctLabels
            /\ \A k \in 1..Len(hues) : FEq(hues[k], Num((k - 1) * 360, n))
            /\ \A j, k \in 1..Len(hues) : j # k => ~FEq(hues[j], hues[k])

InMapping(label) == \E k \in 1..Len(label_colors) : label_colors[k][1] = label

\* C4: the empty label is never inserted into the mapping, and every point
\* whose label is empty or missing from the mapping is drawn red.
C4_EmptyLabelIsRed ==
    pc \in {"drawn", "done"} =>
        /\ ~InMapping(<< >>)
        /\ \A i \in 1..Len(markers) :
              (LabelOf(i) = << >> \/ ~InMapping(LabelOf(i))) => markers[i].color = RED

\* the coordinates at the 0-based positions of parity par (0: x, 1: y)
CoordsAt(par) ==
    {data[p[1]][p[2]] : p \in {q \in (1..Len(data)) \X (1..(MaxRowLen + 2)) :
                                  q[2] <= Len(data[q[1]]) /\ (q[2] - 1) % 2 = par}}

BoundsComputed == pc \in {"bounds", "colors", "drawn", "done"}

\* m is a least (greatest) element of the set S
IsMinOf(m, S) == m \in S /\ \A v \in S : FLe(m, v)
IsMaxOf(m, S) == m \in S /\ \A v \in S : FLe(v, m)

TightBounds ==
    /\ FLe(min_x, max_x)
    /\ FLe(min_y, max_y)
    /\ IsMinOf(min_x, CoordsAt(0)) /\ IsMaxOf(max_x, CoordsAt(0))
    /\ IsMinOf(min_y, CoordsAt(1)) /\ IsMaxOf(max_y, CoordsAt(1))

NoNaNCoordinate ==
    \A i \in 1..Len(data) : \A j \in 1..Len(data[i]) : ~IsNaN(data[i][j])

\* C5 as stated: for every non-empty point set the computed bounds satisfy
\* minX <= maxX, minY <= maxY and are the true minimum and maximum of the x
\* (even positions) and y (odd positions) coordinates.
C5_Original == BoundsComputed => TightBounds

\* C5 amended: the same, for every non-empty point set that has no NaN
\* coordinate.
C5_TightBoundsWithoutNaN == (BoundsComputed /\ NoNaNCoordinate) => TightBounds

C5_Witness ==
    /\ pc = "bounds"
    /\ NoNaNCoordinate
    /\ Len(data) >= 2
    /\ FLt(min_x, max_x)
    /\ FLt(min_y, max_y)
    /\ data[1][1] = max_x

\* the labels attached to a point: the label at the index of a row
Attached == {LabelOf(i) : i \in 1..Len(data)} \ {<< >>}

LegendAscending ==
    \A j, k \in 1..Len(legend) :
        j < k => /\ ParseUsize(legend[j].label) >= 0
                 /\ ParseUsize(legend[j].label) <= ParseUsize(legend[k].label)

C7_NonNumericLabelErrorReturned ==
    (Terminated /\ labels.some /\ \E l \in Attached : ParseUsize(l) < 0)
        => pc = "NonNumericLabelError"

NumLosses == {losses[i] : i \in 1..Len(losses)} \ {NaN}

LeastLoss == CHOOSE m \in NumLosses : \A v \in NumLosses : FLe(m, v)
GreatestLoss == CHOOSE m \in NumLosses : \A v \in NumLosses : FLe(v, m)

TenthOfAbs(m) == FDiv(FAbs(m), Num(10, 1))

PaddedRangeUsed ==
    /\ FEq(y_range[1], FSub(LeastLoss, TenthOfAbs(LeastLoss)))
    /\ FEq(y_range[2], FAdd(GreatestLoss, TenthOfAbs(GreatestLoss)))

AnchorX == FAdd(min_x, FDiv(FMul(Num(8, 1), FSub(max_x, min_x)), Num(10, 1)))
AnchorY(k, n) ==
    FSub(FSub(max_y, FDiv(FSub(max_y, min_y), Num(10, 1))),
         FDiv(FMul(Num(k - 1, 1), FSub(max_y, min_y)), Num(2 * n, 1)))

\* C10: with n >= 1 legend rows and maxY > minY, row k (0-indexed) is
\* anchored at x = minX + 0.8*(maxX - minX), y = maxY - 0.1*(maxY - minY)
\* - k*spacingY, spacingY = (maxY - minY)/(2n); two anchors are at least
\* spacingY apart and every anchor is strictly between minY and maxY.
C10_LegendAnchors ==
    (pc = "done" /\ labels.some /\ Len(legend) >= 1 /\ FLt(min_y, max_y)) =>
        LET n == Len(legend)
            sp == FDiv(FSub(max_y, min_y), Num(2 * n, 1))
        IN  /\ \A k \in 1..n :
                  /\ FEq(legend[k].pos[1], AnchorX)
                  /\ FEq(legend[k].pos[2], AnchorY(k, n))
                  /\ FLt(min_y, legend[k].pos[2])
                  /\ FLt(legend[k].pos[2], max_y)
            /\ \A j, k \in 1..n :
                  j < k => FLe(sp, FSub(legend[j].pos[2], legend[k].pos[2]))

C10_Witness ==
    /\ pc = "done"
    /\ labels.some
    /\ Len(legend) = 3
    /\ FLt(min_y, max_y)
    /\ FLt(legend[3].pos[2], legend[2].pos[2])

====
